---- MODULE Spec2Model ----
(***************************************************************************)
(* Model of sycl::impl::transform_reduce                                   *)
(* (include/sycl/algorithm/transform_reduce.hpp).                          *)
(*                                                                         *)
(* The host thread walks through the body of transform_reduce; every       *)
(* q.submit puts a kernel (a by-value copy of passes and length) on the    *)
(* queue; the device runs the kernels, one work-group at a time, each      *)
(* group in two steps (ingest + combine, then write-back).                 *)
(*                                                                         *)
(* Values of type T are finite sequences of integer tokens.  The input     *)
(* element i is the token i, init is the token 0.  binary_op is either     *)
(* concatenation (the free monoid: associative, not commutative) or        *)
(* concatenation followed by sorting (the free commutative monoid).        *)
(* unary_op is either the identity or negates each token.                  *)
(***************************************************************************)
EXTENDS Integers, Sequences, FiniteSets, TLC

\* ---- bounds of the model ------------------------------------------------
MaxN == 6
MaxWG == 4
MaxPasses == 3
MaxQueue == 2
MaxGroups == 3

VARIABLES
  n,            \* vectorSize = distance(first, last)
  maxWG,        \* device.get_info<max_work_group_size>()
  commutative,  \* which binary_op the caller passed
  identityOp,   \* which unary_op the caller passed
  pc,           \* position of the host thread in transform_reduce
  local, global, length, passes,   \* the host's locals
  result,       \* the value returned (NoResult while none)
  bufRCreated,  \* bufR has been constructed
  bufICreated,  \* bufI has been constructed
  bufI,         \* content of the Input buffer
  waited,       \* q.wait_and_throw() has been called
  bufR,         \* content of the Partial-Result buffer
  lastWriter,   \* per slot of bufR: pass that wrote it last, -1 if none
  kq,           \* kernels submitted and not yet completed, in order
  devErr        \* an asynchronous device error is pending on the queue

vars == <<n, maxWG, commutative, identityOp, pc, local, global, length,
          passes, result, bufRCreated, bufICreated, bufI, waited,
          bufR, lastWriter, kq, devErr>>

inputVars == <<n, maxWG, commutative, identityOp>>

\* ---- values -------------------------------------------------------------
Min(a, b) == IF a < b THEN a ELSE b
Max(a, b) == IF a > b THEN a ELSE b

NoResult == <<>>
init == <<0>>
Junk == MaxN + 1
\* what an uninitialised T can hold
Garbage == {<<>>, <<Junk>>}

Elem(i) == <<i>>

Tokens(v) == {v[k] : k \in 1..Len(v)}

BinaryOp(a, b) ==
  IF commutative THEN SortSeq(a \o b, LAMBDA x, y : x < y) ELSE a \o b

UnaryOp(v) == IF identityOp THEN v ELSE [k \in 1..Len(v) |-> 0 - v[k]]

\* sequential left-to-right reference fold of unary_op(s_1), ...,
\* unary_op(s_m), m >= 1
RECURSIVE SeqFold(_)
SeqFold(m) ==
  IF m = 1 THEN UnaryOp(Elem(1))
  ELSE BinaryOp(SeqFold(m - 1), UnaryOp(Elem(m)))

\* ---- work-size planning -------------------------------------------------
LocalSizeMut(maxGroup, size) == maxGroup
LocalSize(maxGroup, size) == Min(maxGroup, size)

CalculateGlobalSize(size, loc) == loc * ((size + loc - 1) \div loc)

\* work-items of the nd_range of a kernel
LaunchSizeMut(glob, loc) == glob + loc
LaunchSize(glob, loc) == Max(glob, loc)

NumGroupsMut(glob, loc) == LaunchSize(glob, loc) \div loc + 1
NumGroups(glob, loc) == LaunchSize(glob, loc) \div loc

\* size of the local accessor scratch
ScratchSize(loc) == loc

\* work-groups a call on size elements launches in each pass
InputGroups(size, maxGroup) ==
  NumGroups(CalculateGlobalSize(size, LocalSize(maxGroup, size)),
            LocalSize(maxGroup, size))

\* ---- reduction strategy (per work-group) --------------------------------
\* number of work-items of group g (1-based) whose global index < len
ValidCount(g, loc, len) == Max(0, Min(loc, len - (g - 1) * loc))

\* work-item k (1-based) folds scratch[k + stride] into scratch[k] in the
\* round of this stride
ActiveMut(k, cnt, stride) == (k - 1) + stride < cnt
Active(k, cnt, stride) ==
  (k - 1) % (2 * stride) = 0 /\ (k - 1) + stride < cnt

RECURSIVE TreeRounds(_, _, _)
TreeRounds(scratch, cnt, stride) ==
  IF stride >= cnt THEN scratch
  ELSE TreeRounds(
         [k \in 1..Len(scratch) |->
            IF Active(k, cnt, stride)
            THEN BinaryOp(scratch[k], scratch[k + stride])
            ELSE scratch[k]],
         cnt, 2 * stride)

CombineThreads(scratch, cnt) == TreeRounds(scratch, cnt, 1)

\* value a work-item reads from bufR slot j (1-based); junk if never written
ReadR(j, junk) == IF lastWriter[j] = -1 THEN junk ELSE bufR[j]

\* the value work-item with global index gid (1-based) ingests
IngestMut(pass, gid, junk) ==
  IF pass = 0 THEN UnaryOp(bufI[gid]) ELSE UnaryOp(ReadR(gid, junk))
Ingest(pass, gid, junk) ==
  IF pass = 0 THEN UnaryOp(bufI[gid]) ELSE ReadR(gid, junk)

\* scratch of group g after staging: valid items hold their ingested
\* value, the others were never written
Stage(pass, g, loc, len, junk) ==
  [k \in 1..ScratchSize(loc) |->
     IF k <= ValidCount(g, loc, len)
     THEN Ingest(pass, (g - 1) * loc + k, junk)
     ELSE junk]

GroupValue(pass, g, loc, len, junk) ==
  CombineThreads(Stage(pass, g, loc, len, junk), ValidCount(g, loc, len))[1]

\* ---- kernels on the queue -----------------------------------------------
NewKernel(p, len, groups) ==
  [pass |-> p, length |-> len, st |-> "queued",
   gst |-> [g \in 1..groups |-> "idle"],
   gres |-> [g \in 1..groups |-> <<>>]]

RemoveAt(s, i) == [k \in 1..(Len(s) - 1) |-> IF k < i THEN s[k] ELSE s[k + 1]]

\* both accessors of a kernel are requested on bufI (read) and bufR
\* (read_write): a kernel depends on every kernel submitted before it
CanStartMut(i) == TRUE
CanStart(i) == i = 1

QueueIdleMut == TRUE
QueueIdle == Len(kq) = 0

\* ---- initial state ------------------------------------------------------
Init ==
  /\ n \in 0..MaxN
  /\ maxWG \in 1..MaxWG
  /\ n >= 1 => InputGroups(n, maxWG) <= MaxGroups
  /\ commutative \in BOOLEAN
  /\ identityOp \in BOOLEAN
  /\ pc = "entry"
  /\ local = 0 /\ global = 0 /\ length = 0 /\ passes = 0
  /\ result = NoResult
  /\ bufRCreated = FALSE /\ bufICreated = FALSE /\ waited = FALSE
  /\ bufI = <<>>
  /\ bufR = <<>> /\ lastWriter = <<>>
  /\ kq = <<>>
  /\ devErr = FALSE

\* ---- host ---------------------------------------------------------------
\* lines 55-57: the queue, vectorSize and bufR
Construct ==
  /\ pc = "entry"
  /\ bufRCreated' = TRUE
  /\ bufR' = [j \in 1..n |-> <<>>]
  /\ lastWriter' = [j \in 1..n |-> -1]
  /\ pc' = "check"
  /\ UNCHANGED <<inputVars, local, global, length, passes, result,
                 bufICreated, bufI, waited, kq, devErr>>

\* lines 58-60
EmptyReturn ==
  /\ pc = "check"
  /\ n < 1
  /\ result' = init
  /\ pc' = "done"
  /\ UNCHANGED <<inputVars, local, global, length, passes, bufRCreated,
                 bufICreated, bufI, waited, bufR, lastWriter, kq, devErr>>

\* lines 62-70
Plan ==
  /\ pc = "check"
  /\ ~(n < 1)
  /\ local' = LocalSize(maxWG, n)
  /\ bufICreated' = TRUE
  /\ bufI' = [j \in 1..n |-> Elem(j)]
  /\ length' = n
  /\ global' = CalculateGlobalSize(n, local')
  /\ passes' = 0
  /\ pc' = "submit"
  /\ UNCHANGED <<inputVars, result, bufRCreated, waited, bufR, lastWriter,
                 kq, devErr>>

\* lines 73-98: q.submit(f), f holding copies of passes and length
Submit ==
  /\ pc = "submit"
  /\ Len(kq) < MaxQueue
  /\ kq' = Append(kq, NewKernel(passes, length, NumGroups(global, local)))
  /\ pc' = "shrink"
  /\ UNCHANGED <<inputVars, local, global, length, passes, result,
                 bufRCreated, bufICreated, bufI, waited, bufR, lastWriter, devErr>>

\* line 98: q.submit throws; nothing catches it
SubmitFail ==
  /\ pc = "submit"
  /\ pc' = "failed"
  /\ UNCHANGED <<inputVars, local, global, length, passes, result,
                 bufRCreated, bufICreated, bufI, waited, bufR, lastWriter, kq,
                 devErr>>

LoopAgainMut(len) == len >= 1
LoopAgain(len) == len > 1

ShrinkLengthMut(len, loc) == (len + loc - 1) \div loc
ShrinkLength(len, loc) == len \div loc

\* lines 99-101
Shrink ==
  /\ pc = "shrink"
  /\ passes' = IF passes < MaxPasses THEN passes + 1 ELSE passes
  /\ length' = ShrinkLength(length, local)
  /\ pc' = IF LoopAgain(length') THEN "submit" ELSE "wait"
  /\ UNCHANGED <<inputVars, local, global, result, bufRCreated, bufICreated, bufI,
                 waited, bufR, lastWriter, kq, devErr>>

WaitOutcomeMut(err) == "read"
WaitOutcome(err) == IF err THEN "failed" ELSE "read"

\* line 102: q.wait_and_throw()
WaitAndThrow ==
  /\ pc = "wait"
  /\ QueueIdle
  /\ waited' = TRUE
  /\ pc' = WaitOutcome(devErr)
  /\ UNCHANGED <<inputVars, local, global, length, passes, result,
                 bufRCreated, bufICreated, bufI, bufR, lastWriter, kq, devErr>>

FinalizeMut(hR0) == BinaryOp(init, hR0)
Finalize(hR0) == BinaryOp(hR0, init)

\* lines 103-105
HostRead ==
  /\ pc = "read"
  /\ \E junk \in Garbage : result' = Finalize(ReadR(1, junk))
  /\ pc' = "done"
  /\ UNCHANGED <<inputVars, local, global, length, passes, bufRCreated,
                 bufICreated, bufI, waited, bufR, lastWriter, kq, devErr>>

\* ---- device -------------------------------------------------------------
KernelStart(i) ==
  /\ kq[i].st = "queued"
  /\ ~devErr
  /\ CanStart(i)
  /\ kq' = [kq EXCEPT ![i].st = "running"]
  /\ UNCHANGED <<inputVars, pc, local, global, length, passes, result,
                 bufRCreated, bufICreated, bufI, waited, bufR, lastWriter, devErr>>

\* passes and length as the kernel of queue entry i sees them: the copies
\* made when f was built
KernelPass(i) == kq[i].pass

KernelLengthMut(i) == length
KernelLength(i) == kq[i].length

\* lines 86-94 for all work-items of group g
GroupIngest(i, g) ==
  /\ kq[i].st = "running"
  /\ kq[i].gst[g] = "idle"
  /\ \E junk \in Garbage :
       kq' = [kq EXCEPT ![i].gst[g] = "ingested",
                        ![i].gres[g] =
                          GroupValue(KernelPass(i), g, local, KernelLength(i), junk)]
  /\ UNCHANGED <<inputVars, pc, local, global, length, passes, result,
                 bufRCreated, bufICreated, bufI, waited, bufR, lastWriter, devErr>>

\* the slot of bufR the representative of group g writes to
WriteSlot(g) == g

\* line 95 for group g
GroupWrite(i, g) ==
  /\ kq[i].st = "running"
  /\ kq[i].gst[g] = "ingested"
  /\ bufR' = [bufR EXCEPT ![WriteSlot(g)] = kq[i].gres[g]]
  /\ lastWriter' = [lastWriter EXCEPT ![WriteSlot(g)] = KernelPass(i)]
  /\ kq' = [kq EXCEPT ![i].gst[g] = "written"]
  /\ UNCHANGED <<inputVars, pc, local, global, length, passes, result,
                 bufRCreated, bufICreated, bufI, waited, devErr>>

KernelComplete(i) ==
  /\ kq[i].st = "running"
  /\ \A g \in DOMAIN kq[i].gst : kq[i].gst[g] = "written"
  /\ kq' = RemoveAt(kq, i)
  /\ UNCHANGED <<inputVars, pc, local, global, length, passes, result,
                 bufRCreated, bufICreated, bufI, waited, bufR, lastWriter, devErr>>

\* the kernel fails on the device, at any point of its execution; the
\* error is kept for wait_and_throw
KernelFail(i) ==
  /\ kq[i].st = "running"
  /\ devErr' = TRUE
  /\ kq' = RemoveAt(kq, i)
  /\ UNCHANGED <<inputVars, pc, local, global, length, passes, result,
                 bufRCreated, bufICreated, bufI, waited, bufR, lastWriter>>

\* after a device error the kernels still queued leave the queue without
\* their effect on bufR being followed: the host can no longer observe it,
\* wait_and_throw reports the error
KernelDrain(i) ==
  /\ kq[i].st = "queued"
  /\ devErr
  /\ CanStart(i)
  /\ kq' = RemoveAt(kq, i)
  /\ UNCHANGED <<inputVars, pc, local, global, length, passes, result,
                 bufRCreated, bufICreated, bufI, waited, bufR, lastWriter, devErr>>

HostNext ==
  \/ Construct
  \/ EmptyReturn
  \/ Plan
  \/ Submit
  \/ SubmitFail
  \/ Shrink
  \/ WaitAndThrow
  \/ HostRead

DeviceNext ==
  \E i \in 1..Len(kq) :
    \/ KernelStart(i)
    \/ \E g \in DOMAIN kq[i].gst : GroupIngest(i, g)
    \/ \E g \in DOMAIN kq[i].gst : GroupWrite(i, g)
    \/ KernelComplete(i)
    \/ KernelFail(i)
    \/ KernelDrain(i)

Next == HostNext \/ DeviceNext

Spec == Init /\ [][Next]_vars

FairSpec == Spec /\ WF_vars(HostNext) /\ WF_vars(DeviceNext)

\* ---- properties ---------------------------------------------------------
Returned == pc = "done" /\ n >= 1

\* C1: for a non-empty input and unary_op = identity the value returned is
\* binary_op(fold(S), init), fold(S) being the left-to-right combination
\* of all n elements, for every maximum group size.
C1_FoldWithInit ==
  (Returned /\ identityOp) => result = BinaryOp(SeqFold(n), init)

\* C2: for every n >= 1 and every maximum group size the pass loop is left
\* after finitely many submissions and the call ends.
C2_Terminates == (n >= 1) ~> (pc \in {"done", "failed"})

\* the value the call computes when one work-group covers the whole input
SingleGroupResult == Finalize(GroupValue(0, 1, n, n, <<>>))

\* C3: with a commutative binary_op the value returned does not depend on
\* the maximum group size: it is the value a single covering group gives.
C3_LocalSizeInvariant ==
  (Returned /\ commutative) => result = SingleGroupResult

\* C4: on an empty range the call returns init and has touched nothing of
\* the device: no buffer constructed, no kernel submitted, no queue wait.
C4_EmptyNoDevice ==
  (pc = "done" /\ n = 0) =>
     /\ result = init
     /\ ~bufRCreated /\ ~bufICreated
     /\ passes = 0 /\ Len(kq) = 0
     /\ ~waited

\* C5: the value returned for a non-empty input is binary_op(d, init) with
\* d the content of slot 0 of bufR, the device partial on the left; init
\* never enters bufR or a group's value, so it is combined exactly once.
C5_FinalOperandOrder ==
  /\ Returned =>
       /\ result = BinaryOp(bufR[1], init)
       /\ Cardinality({k \in 1..Len(result) : result[k] = 0}) = 1
  /\ \A j \in 1..Len(bufR) : 0 \notin Tokens(bufR[j])
  /\ \A i \in 1..Len(kq) :
       \A g \in DOMAIN kq[i].gres : 0 \notin Tokens(kq[i].gres[g])

C5_Witness ==
  Returned /\ ~commutative /\ passes >= 2 /\ Len(bufR[1]) >= 2

\* C6: when 1 <= n <= maximum group size exactly one pass is submitted and
\* the value returned is binary_op(fold of unary_op(s_i) in order, init).
C6_SingleGroup ==
  (n >= 1 /\ n <= maxWG) =>
     /\ passes <= 1
     /\ pc = "done" => passes = 1 /\ result = BinaryOp(SeqFold(n), init)

C6_Witness ==
  Returned /\ n = 3 /\ maxWG >= 3 /\ ~identityOp /\ ~commutative

\* a Submit step: the queue grows
Dispatched == Len(kq') > Len(kq)

C8_ReadAfterCompletion ==
  (pc \in {"read", "done"} /\ n >= 1) =>
     /\ Len(kq) = 0
     /\ waited
     /\ passes < MaxPasses => lastWriter[1] = passes - 1

C8_Witness == pc = "read" /\ passes >= 2

\* C9: in a pass that runs without device failure, a work-group's
\* write-back changes its own slot only, and every bufR slot a work-item of
\* pass k >= 1 reads was last written by pass k-1 (not by a group of
\* pass k).
C9_NoSamePassReadWrite ==
  [][\A i \in 1..Len(kq) : \A g \in DOMAIN kq[i].gst :
       (Len(kq') = Len(kq) /\ ~devErr) =>
         /\ (kq[i].gst[g] = "ingested" /\ kq'[i].gst[g] = "written") =>
              \A j \in 1..Len(bufR) : j # g => bufR'[j] = bufR[j]
         /\ (/\ kq[i].gst[g] = "idle" /\ kq'[i].gst[g] = "ingested"
             /\ kq[i].pass >= 1 /\ kq[i].pass < MaxPasses) =>
              \A k \in 1..ValidCount(g, local, kq[i].length) :
                 lastWriter[(g - 1) * local + k] = kq[i].pass - 1]_vars

SameQueue == Len(kq') = Len(kq)

\* group g of queue entry i ingests and combines in this step
Ingests(i, g) ==
  SameQueue /\ kq[i].gst[g] = "idle" /\ kq'[i].gst[g] = "ingested"

\* group g of queue entry i writes back in this step
Writes(i, g) ==
  SameQueue /\ kq[i].gst[g] = "ingested" /\ kq'[i].gst[g] = "written"

\* global indices (1-based) of the work-items of group g below the length
\* of queue entry i
ValidIds(i, g) ==
  {(g - 1) * local + k : k \in 1..ValidCount(g, local, kq[i].length)}

\* the Logical Length of pass p: n divided p times by local, rounding down
RECURSIVE LengthAt(_)
LengthAt(p) == IF p = 0 THEN n ELSE LengthAt(p - 1) \div local

\* left-to-right combination of vals[1], ..., vals[m], m >= 1
RECURSIVE FoldSeq(_, _)
FoldSeq(vals, m) ==
  IF m = 1 THEN vals[1] ELSE BinaryOp(FoldSeq(vals, m - 1), vals[m])

\* the values the work-items of group g below the length are to ingest
ExpectedIngest(i, g) ==
  [k \in 1..ValidCount(g, local, kq[i].length) |->
     IF kq[i].pass = 0 THEN UnaryOp(Elem((g - 1) * local + k))
     ELSE bufR[(g - 1) * local + k]]

\* C11: a work-group of pass k+1 ingests only when no earlier pass is
\* pending or executing, and every bufR slot it reads holds what pass k
\* wrote.
C11_ReadsSeePreviousPass ==
  [][\A i \in 1..Len(kq) : \A g \in DOMAIN kq[i].gst :
       (/\ Ingests(i, g) /\ ~devErr
        /\ kq[i].pass >= 1 /\ kq[i].pass < MaxPasses) =>
          /\ i = 1
          /\ \A j \in 1..Len(kq) : j # i => kq[j].st = "queued"
          /\ \A s \in ValidIds(i, g) : lastWriter[s] = kq[i].pass - 1]_vars

\* C12: a pass k+1 reads only bufR slots with index below
\* floor(length_k / local), and so does the host: index 0 is below
\* floor(length_k / local) for the last pass k.
C12_ReadsInsideRange ==
  [][/\ \A i \in 1..Len(kq) : \A g \in DOMAIN kq[i].gst :
          (/\ Ingests(i, g)
           /\ kq[i].pass >= 1 /\ kq[i].pass < MaxPasses) =>
             \A s \in ValidIds(i, g) :
                s <= LengthAt(kq[i].pass - 1) \div local
     /\ (pc = "read" /\ pc' = "done" /\ passes < MaxPasses) =>
           1 <= LengthAt(passes - 1) \div local]_vars

\* C12 (amended): a pass k+1 reads only bufR slots with index below
\* floor(length_k / local).  The host reads index 0, which group 0 of the
\* last pass k wrote: it is below ceil(length_k / local), while
\* floor(length_k / local) is 0 when the last pass ran with
\* length_k < local.
C12_ReadsInsideWrittenRange ==
  [][/\ \A i \in 1..Len(kq) : \A g \in DOMAIN kq[i].gst :
          (/\ Ingests(i, g)
           /\ kq[i].pass >= 1 /\ kq[i].pass < MaxPasses) =>
             \A s \in ValidIds(i, g) :
                s <= LengthAt(kq[i].pass - 1) \div local
     /\ (pc = "read" /\ pc' = "done" /\ passes < MaxPasses) =>
           /\ 1 <= (LengthAt(passes - 1) + local - 1) \div local
           /\ lastWriter[1] = passes - 1
           /\ length = LengthAt(passes - 1) \div local
           /\ length \in {0, 1}]_vars

C12_Witness == pc = "done" /\ n >= 1 /\ length = 0 /\ passes = 2

\* C13: at every dispatch local is positive, at most the device maximum,
\* at most the current Logical Length, and equal to min(maxWG, n).
C13_LocalWithinLength ==
  [][Dispatched =>
       /\ local >= 1 /\ local <= maxWG
       /\ local <= length
       /\ local = Min(maxWG, n)]_vars

\* C13 (amended): at every dispatch local is positive, at most the device
\* maximum, at most the initial length n, and equal to min(maxWG, n); it
\* never changes after it was chosen.  It can exceed the current Logical
\* Length in a pass >= 1.
C13_LocalFixed ==
  [][/\ Dispatched =>
          /\ local >= 1 /\ local <= maxWG
          /\ local <= n
          /\ local = Min(maxWG, n)
     /\ pc \notin {"entry", "check"} => local' = local]_vars

C13_Witness ==
  \E i \in 1..Len(kq) :
     kq[i].pass >= 1 /\ kq[i].length < local /\ kq[i].st = "running"

\* C14: the value a group writes back is the in-order combination of
\* exactly the values its work-items below the Logical Length ingested
\* (nothing else enters it), and the write goes to the slot of the group's
\* index and to no other slot.
C14_GroupWriteBack ==
  [][\A i \in 1..Len(kq) : \A g \in DOMAIN kq[i].gst :
       /\ (Ingests(i, g) /\ ~devErr) =>
            LET cnt == ValidCount(g, local, kq[i].length)
                vals == ExpectedIngest(i, g)
            IN /\ Tokens(kq'[i].gres[g]) =
                    UNION {Tokens(vals[k]) : k \in 1..cnt}
               /\ cnt >= 1 => kq'[i].gres[g] = FoldSeq(vals, cnt)
       /\ Writes(i, g) =>
            /\ bufR'[g] = kq[i].gres[g]
            /\ \A j \in 1..Len(bufR) : j # g => bufR'[j] = bufR[j]]_vars

\* C15: the number of work-items of every dispatch is a positive multiple
\* of local, at least the Logical Length, the smallest multiple of local
\* that is >= n, and the same in every pass.
C15_GlobalSize ==
  (n >= 1 /\ pc \notin {"entry", "check"}) =>
     LET launched == LaunchSize(global, local)
     IN /\ launched > 0
        /\ launched % local = 0
        /\ launched >= length
        /\ launched >= n /\ launched - local < n
        /\ \A i \in 1..Len(kq) :
             /\ Len(kq[i].gst) * local = launched
             /\ launched >= kq[i].length

C15_Witness ==
  \E i \in 1..Len(kq) :
     kq[i].pass >= 1 /\ kq[i].st = "running" /\ global > n

\* C16: pass 0 ingests unary_op of the Input buffer elements, each element
\* below n in exactly one work-item; a pass >= 1 ingests bufR values as
\* they are; the Input buffer never changes.
C16_TransformOnlyInPassZero ==
  [][/\ bufICreated => bufI' = bufI
     /\ \A i \in 1..Len(kq) : \A g \in DOMAIN kq[i].gst :
          (Ingests(i, g) /\ ~devErr) =>
             LET cnt == ValidCount(g, local, kq[i].length)
             IN IF kq[i].pass = 0
                THEN /\ cnt >= 1
                     /\ kq'[i].gres[g] =
                          FoldSeq([k \in 1..cnt |->
                                     UnaryOp(bufI[(g - 1) * local + k])],
                                  cnt)
                ELSE cnt >= 1 =>
                       kq'[i].gres[g] =
                          FoldSeq([k \in 1..cnt |->
                                     bufR[(g - 1) * local + k]], cnt)
     /\ \A i \in 1..Len(kq) :
          kq[i].pass = 0 =>
             \A j \in 1..n :
                Cardinality({g \in DOMAIN kq[i].gst :
                               j \in ValidIds(i, g)}) = 1]_vars

C16_Witness ==
  /\ ~identityOp
  /\ \E i \in 1..Len(kq) :
       kq[i].pass = 1 /\ kq[i].gst[1] = "written" /\ Len(bufR[1]) >= 4

\* strides of the rounds of the tree over cnt staged values
Strides(cnt) == {2 ^ e : e \in 0..cnt} \cap 1..(cnt - 1)

\* the work-items of a group that fold in the round of this stride
Folding(cnt, stride) ==
  {k \in 1..ScratchSize(local) : Active(k, cnt, stride)}

C18_KernelSeesSubmitValues ==
  [][\A i \in 1..Len(kq) :
       kq[i].pass < MaxPasses =>
          /\ kq[i].length = LengthAt(kq[i].pass)
          /\ SameQueue =>
               /\ kq'[i].pass = kq[i].pass
               /\ kq'[i].length = kq[i].length
          /\ \A g \in DOMAIN kq[i].gst :
               (Ingests(i, g) /\ ~devErr) =>
                  \E junk \in Garbage :
                     kq'[i].gres[g] =
                        GroupValue(kq[i].pass, g, local,
                                   LengthAt(kq[i].pass), junk)]_vars

C18_Witness ==
  /\ Len(kq) >= 1
  /\ kq[1].pass = 0 /\ passes = 2 /\ length # kq[1].length
  /\ \E g \in DOMAIN kq[1].gst : kq[1].gst[g] = "ingested"

\* C19: every index a kernel uses is inside the buffer it indexes: Input
\* buffer and bufR indices are below n, scratch indices below local.
C19_AccessesInBounds ==
  /\ bufRCreated => Len(bufR) = n
  /\ bufICreated => Len(bufI) = n
  /\ \A i \in 1..Len(kq) : \A g \in DOMAIN kq[i].gst :
       LET cnt == ValidCount(g, local, kq[i].length)
       IN /\ WriteSlot(g) \in 1..n
          /\ ValidIds(i, g) \subseteq 1..n
          /\ cnt <= ScratchSize(local)
          /\ ScratchSize(local) >= 1
          /\ \A s \in Strides(cnt) :
               \A k \in Folding(cnt, s) : k + s <= ScratchSize(local)

C19_Witness ==
  \E i \in 1..Len(kq) :
     /\ kq[i].pass >= 1 /\ global > n
     /\ \A g \in DOMAIN kq[i].gst : kq[i].gst[g] = "written"

IsPowerOf(x, b) == \E e \in 1..x : b ^ e = x

\* C20: when n is a power of local (local >= 2) no division of the length
\* leaves a remainder and, for a commutative binary_op, the value returned
\* is binary_op(fold of all unary_op(s_i), init).
C20_PowerOfLocal ==
  (n >= 1 /\ local >= 2 /\ IsPowerOf(n, local)) =>
     /\ pc = "shrink" => length % local = 0
     /\ (pc = "done" /\ commutative) =>
          result = BinaryOp(SeqFold(n), init)

====
